---- MODULE Spec2Model ----
(***************************************************************************)
(* review-radar (rr): a command-line tool that stores preferences          *)
(* (organizations, username, repository pattern) in a configuration file   *)
(* and searches open pull requests through the GitHub CLI `gh`.            *)
(*                                                                         *)
(* Strings the program takes apart (organization arguments, repository     *)
(* names, patterns) are sequences of one-character strings.  Strings the   *)
(* program only compares for equality (logins, titles, urls) are TLA+      *)
(* strings.  Option<T> is a sequence of length 0 (None) or 1 (Some).       *)
(***************************************************************************)
EXTENDS Integers, Sequences, FiniteSets, TLC

None == <<>>
Some(v) == <<v>>
IsSome(o) == Len(o) = 1
Unwrap(o) == o[1]

(***************************************************************************)
(* String helpers: str::to_lowercase, str::trim, str::split(','),          *)
(* str::strip_prefix, Vec::contains, Iterator::position.  The alphabet of  *)
(* the model has the upper-case letters N, O, E and the space as its only  *)
(* white space.                                                            *)
(***************************************************************************)
LowerChar(c) ==
    CASE c = "N" -> "n"
      [] c = "O" -> "o"
      [] c = "E" -> "e"
      [] OTHER -> c

to_lowercase(s) == [i \in 1..Len(s) |-> LowerChar(s[i])]

RECURSIVE TrimStart(_)
TrimStart(s) ==
    IF s # <<>> /\ Head(s) = " " THEN TrimStart(Tail(s)) ELSE s

RECURSIVE TrimEnd(_)
TrimEnd(s) ==
    IF s # <<>> /\ s[Len(s)] = " " THEN TrimEnd(SubSeq(s, 1, Len(s) - 1)) ELSE s

trim(s) == TrimEnd(TrimStart(s))

\* s.split(','): the pieces between commas; always at least one piece.
RECURSIVE SplitFrom(_, _, _)
SplitFrom(s, cur, acc) ==
    IF s = <<>> THEN Append(acc, cur)
    ELSE IF Head(s) = "," THEN SplitFrom(Tail(s), <<>>, Append(acc, cur))
    ELSE SplitFrom(Tail(s), Append(cur, Head(s)), acc)

split(s) == SplitFrom(s, <<>>, <<>>)

\* org_str.split(',').map(|s| s.trim().to_string()).collect()
SplitOrgs(s) == LET parts == split(s) IN [i \in 1..Len(parts) |-> trim(parts[i])]

contains(v, x) == \E i \in 1..Len(v) : v[i] = x

\* Iterator::position: index of the first equal element, 0 when there is none.
position(v, x) ==
    IF contains(v, x) THEN CHOOSE i \in 1..Len(v) : v[i] = x /\ \A j \in 1..(i - 1) : v[j] # x
    ELSE 0

\* Vec::remove(pos)
remove(v, pos) == SubSeq(v, 1, pos - 1) \o SubSeq(v, pos + 1, Len(v))

(***************************************************************************)
(* The regex crate, on the syntax the patterns of this model use: literal  *)
(* characters, '.', a postfix '*', the anchors '^' and '$', and a bracket  *)
(* class of literal characters.  Regex::new fails on an unclosed or empty  *)
(* class and on a '*' with nothing to repeat; is_match searches anywhere   *)
(* in the text (unanchored).                                               *)
(***************************************************************************)
RegexError == [kind |-> "error"]

\* Index of the first "]" at or after i, 0 when there is none.
RECURSIVE ClassEnd(_, _)
ClassEnd(p, i) ==
    IF i > Len(p) THEN 0
    ELSE IF p[i] = "]" THEN i
    ELSE ClassEnd(p, i + 1)

RECURSIVE ParseFrom(_, _, _)
ParseFrom(p, i, acc) ==
    IF i > Len(p) THEN [kind |-> "ok", atoms |-> acc]
    ELSE LET c == p[i] IN
      CASE c = "*" ->
             IF acc = <<>> THEN RegexError
             ELSE ParseFrom(p, i + 1,
                    [acc EXCEPT ![Len(acc)] = [@ EXCEPT !.star = TRUE]])
        [] c = "[" ->
             LET e == ClassEnd(p, i + 1) IN
             IF e = 0 \/ e = i + 1 THEN RegexError
             ELSE ParseFrom(p, e + 1,
                    Append(acc, [kind |-> "class",
                                 set |-> {p[k] : k \in (i + 1)..(e - 1)},
                                 star |-> FALSE]))
        [] c = "." ->
             ParseFrom(p, i + 1, Append(acc, [kind |-> "any", set |-> {}, star |-> FALSE]))
        [] c = "^" ->
             ParseFrom(p, i + 1, Append(acc, [kind |-> "start", set |-> {}, star |-> FALSE]))
        [] c = "$" ->
             ParseFrom(p, i + 1, Append(acc, [kind |-> "end", set |-> {}, star |-> FALSE]))
        [] OTHER ->
             ParseFrom(p, i + 1, Append(acc, [kind |-> "class", set |-> {c}, star |-> FALSE]))

\* Regex::new(pattern): Ok(regex) or Err.
RegexNew(p) == ParseFrom(p, 1, <<>>)

RegexIsOk(p) == RegexNew(p).kind = "ok"

\* One atom against the text at position j, without its star.
AtomAt(a, s, j) ==
    CASE a.kind = "start" -> j = 1
      [] a.kind = "end" -> j = Len(s) + 1
      [] a.kind = "any" -> j <= Len(s)
      [] OTHER -> j <= Len(s) /\ s[j] \in a.set

AtomWidth(a) == IF a.kind \in {"start", "end"} THEN 0 ELSE 1

RECURSIVE MatchHere(_, _, _, _)
MatchHere(re, i, s, j) ==
    IF i > Len(re) THEN TRUE
    ELSE LET a == re[i] IN
      IF a.star
      THEN \/ MatchHere(re, i + 1, s, j)
           \/ /\ AtomWidth(a) = 1
              /\ \E k \in (j + 1)..(Len(s) + 1) :
                   /\ \A m \in j..(k - 1) : AtomAt(a, s, m)
                   /\ MatchHere(re, i + 1, s, k)
      ELSE AtomAt(a, s, j) /\ MatchHere(re, i + 1, s, j + AtomWidth(a))

\* Regex::is_match(text)
is_match(regex, s) == \E j \in 1..(Len(s) + 1) : MatchHere(regex.atoms, 1, s, j)


(***************************************************************************)
(* Data: Config, GhRepo, GhPullRequest, PullRequest and the TOML file.     *)
(***************************************************************************)
Config(o, u, p) == [orgs |-> o, username |-> u, repo_pattern |-> p]

\* toml::to_string_pretty with skip_serializing_if = "Option::is_none":
\* the document has no repo_pattern key when the pattern is None.
Serialize(cfg) ==
    IF IsSome(cfg.repo_pattern)
    THEN [orgs |-> cfg.orgs, username |-> cfg.username,
          repo_pattern |-> Unwrap(cfg.repo_pattern)]
    ELSE [orgs |-> cfg.orgs, username |-> cfg.username]

\* toml::from_str into Config: a missing repo_pattern key reads as None.
Deserialize(doc) ==
    Config(doc.orgs, doc.username,
           IF "repo_pattern" \in DOMAIN doc THEN Some(doc.repo_pattern) ELSE None)

GhRepo(n, o) == [name |-> n, org |-> o]

GhPullRequest(n, t, u, a, rr) ==
    [number |-> n, title |-> t, url |-> u, author |-> a, review_requests |-> rr]

\* PullRequest { number, title, html_url: pr.url, user: User { login: pr.author.login } }
PullRequest(pr) ==
    [number |-> pr.number, title |-> pr.title, html_url |-> pr.url, user |-> pr.author]

\* format!("{}/{}", repo.org, repo.name)
RepoName(repo) == repo.org \o <<"/">> \o repo.name

(***************************************************************************)
(* Inputs.  Command-line values and the content of the hosting platform.   *)
(***************************************************************************)
OrgA == <<"a">>
OrgB == <<"b">>
OrgC == <<"c">>

\* Values of an organizations argument (init <orgs>, set --orgs, --orgs).
OrgArgs ==
    { <<"a">>,
      <<"a", ",", " ", "b">>,
      <<"a", ",", "b", ",", "c">>,
      <<"+", " ", "b">>,
      <<"-", "a">> }

Usernames == {"alice", "bob"}

PatNone == <<"n", "o", "n", "e">>
PatNoneUpper == <<"N", "o", "N", "E">>
PatInvalid == <<"[", "a">>
PatA == <<"a">>
PatS == <<"^", "s", ".", "*">>

Patterns == {PatA, PatS, PatInvalid, PatNone, PatNoneUpper}

\* Values of the overrides of a search run.
SearchOrgArgs == {<<"a", ",", " ", "b">>}
SearchUsernames == {"bob"}
SearchPatterns == {PatS, PatInvalid}

Opt(S) == {None} \cup {Some(v) : v \in S}

Pr7 == GhPullRequest(7, "Fix bug", "u7", "bob", <<"alice">>)
Pr3 == GhPullRequest(3, "Docs", "u3", "carol", <<>>)
Pr5 == GhPullRequest(5, "Rename", "u5", "alice", <<"Alice", "bob">>)
Pr8 == GhPullRequest(8, "Bump", "u8", "bob", <<"carol", "alice">>)

NameSA == <<"s", "a">>
NameSB == <<"s", "b">>
NameAB == <<"a", "b">>

\* What the platform holds: the repositories of each organization and the
\* open pull requests of each repository, both in the platform's order.
Platforms ==
    { [repos |-> (OrgA :> <<NameSA, NameSB>>) @@ (OrgB :> <<NameAB>>) @@ (OrgC :> <<NameSA>>),
       prs |-> (RepoName(GhRepo(NameSA, OrgA)) :> <<Pr7, Pr3>>)
            @@ (RepoName(GhRepo(NameSB, OrgA)) :> <<Pr5>>)
            @@ (RepoName(GhRepo(NameAB, OrgB)) :> <<Pr8, Pr5>>)
            @@ (RepoName(GhRepo(NameSA, OrgC)) :> <<>>)],
      [repos |-> (OrgA :> <<>>) @@ (OrgB :> <<NameSB, NameSA>>) @@ (OrgC :> <<NameAB>>),
       prs |-> (RepoName(GhRepo(NameSB, OrgB)) :> <<Pr3, Pr5, Pr7>>)
            @@ (RepoName(GhRepo(NameSA, OrgB)) :> <<Pr3>>)
            @@ (RepoName(GhRepo(NameAB, OrgC)) :> <<Pr8>>)] }

\* Configuration files that may exist before the first command.
InitialFiles ==
    { None,
      Some(Serialize(Config(<<OrgA, OrgB, OrgC>>, "alice", None))),
      Some(Serialize(Config(<<>>, "alice", Some(PatA)))) }

\* Number of rr processes run one after the other.
MaxCommands == 2

(***************************************************************************)
(* State.                                                                  *)
(*   config_file     Option of the TOML document at the configuration path *)
(*   platform        what the hosting platform holds                       *)
(*   pc              where the rr process is: "shell" when none runs,      *)
(*                   "exited" when main has returned                       *)
(*   ncmds           number of rr processes started so far                 *)
(*   command, args   the parsed command line of the latest process         *)
(*   exit_code, error, output   how the latest process ended and what it   *)
(*                   printed (error is the Err main returned, or "none")   *)
(*   calls           every gh invocation of the latest process, in order,  *)
(*                   with its outcome                                      *)
(*   orgs, username, own_prs, repo_pattern   the values main resolved and  *)
(*                   passed to search_prs                                  *)
(*   idx, all_repos, filtered_repos, checked_repos, all_prs   the locals   *)
(*                   of search_prs                                         *)
(***************************************************************************)
VARIABLES config_file, platform, pc, ncmds, command, args, exit_code, error, output,
          calls, orgs, username, own_prs, repo_pattern,
          idx, all_repos, filtered_repos, checked_repos, all_prs,
          lib_config, lib_call

vars == <<config_file, platform, pc, ncmds, command, args, exit_code, error, output,
          calls, orgs, username, own_prs, repo_pattern,
          idx, all_repos, filtered_repos, checked_repos, all_prs,
          lib_config, lib_call>>

\* The library crate (lib.rs): the Config a caller holds and the last call on
\* it.  The rr binary (main.rs) does not link the library.
libVars == <<lib_config, lib_call>>

\* The state of the rr binary and of what it runs on.
vars_of_rr == <<config_file, platform, pc, ncmds, command, args, exit_code, error, output,
                calls, orgs, username, own_prs, repo_pattern,
                idx, all_repos, filtered_repos, checked_repos, all_prs>>

searchVars == <<orgs, username, own_prs, repo_pattern,
                idx, all_repos, filtered_repos, checked_repos, all_prs>>

Args(o, u, own, p) == [orgs |-> o, username |-> u, own_prs |-> own, repo_pattern |-> p]

Msg(tag) == <<tag, <<>>>>
MsgFor(tag, what) == <<tag, what>>

\* A gh invocation and what came back.
Call(op, target, author, kind, items) ==
    [op |-> op, target |-> target, author |-> author, kind |-> kind, items |-> items]

\* The locals of search_prs before it is called.
SearchReset ==
    /\ orgs' = <<>>
    /\ username' = ""
    /\ own_prs' = FALSE
    /\ repo_pattern' = None
    /\ idx' = 0
    /\ all_repos' = <<>>
    /\ filtered_repos' = <<>>
    /\ checked_repos' = 0
    /\ all_prs' = <<>>

Init ==
    /\ config_file \in InitialFiles
    /\ platform \in Platforms
    /\ pc = "shell"
    /\ ncmds = 0
    /\ command = "none"
    /\ args = Args(None, None, FALSE, None)
    /\ exit_code = 0
    /\ error = "none"
    /\ output = {}
    /\ calls = <<>>
    /\ orgs = <<>>
    /\ username = ""
    /\ own_prs = FALSE
    /\ repo_pattern = None
    /\ idx = 0
    /\ all_repos = <<>>
    /\ filtered_repos = <<>>
    /\ checked_repos = 0
    /\ all_prs = <<>>
    /\ lib_config = Config(<<>>, "", None)
    /\ lib_call = [op |-> "none"]

\* A new rr process is started from the shell.
Start(cmd, a) ==
    /\ pc = "shell"
    /\ ncmds < MaxCommands
    /\ ncmds' = ncmds + 1
    /\ command' = cmd
    /\ args' = a

\* main returns Ok(()): exit status 0.
ExitOk(msgs) ==
    /\ pc' = "exited"
    /\ exit_code' = 0
    /\ error' = "none"
    /\ output' = msgs

\* main returns Err(e): the error is printed and the exit status is 1.
ExitErr(e, msgs) ==
    /\ pc' = "exited"
    /\ exit_code' = 1
    /\ error' = e
    /\ output' = msgs \cup {Msg("Error")}

\* Config::load(): Err when the file does not exist.
LoadOk == IsSome(config_file)
Load == Deserialize(Unwrap(config_file))

(***************************************************************************)
(* rr init <orgs> <username> [-r pattern]                                  *)
(***************************************************************************)
InitConfig(a) ==
    Config(SplitOrgs(Unwrap(a.orgs)), Unwrap(a.username), a.repo_pattern)

CmdInit ==
    \E o \in OrgArgs, u \in Usernames, p \in Opt(Patterns) :
      LET a == Args(Some(o), Some(u), FALSE, p) IN
        /\ Start("init", a)
        /\ config_file' = Some(Serialize(InitConfig(a)))
        /\ ExitOk({Msg("Configuration saved successfully")})
        /\ calls' = <<>>
        /\ SearchReset
        /\ UNCHANGED <<platform, libVars>>

(***************************************************************************)
(* rr set [--orgs spec] [--username u] [-r pattern]                        *)
(* Each step takes and returns [config, updated, rejected, msgs].          *)
(***************************************************************************)
starts_with(s, c) == s # <<>> /\ Head(s) = c

SetOrgs(st, o) ==
    IF ~IsSome(o) THEN st
    ELSE LET org_str == Unwrap(o) IN
      IF starts_with(org_str, "+")
      THEN LET new_org == trim(Tail(org_str)) IN
           IF ~contains(st.config.orgs, new_org)
           THEN [st EXCEPT !.config.orgs = Append(@, new_org),
                           !.updated = TRUE,
                           !.msgs = @ \cup {MsgFor("Added organization", new_org)}]
           ELSE [st EXCEPT !.msgs = @ \cup {MsgFor("already exists", new_org)}]
      ELSE IF starts_with(org_str, "-")
      THEN LET remove_org == trim(Tail(org_str))
               pos == position(st.config.orgs, remove_org) IN
           IF pos # 0
           THEN [st EXCEPT !.config.orgs = remove(@, pos),
                           !.updated = TRUE,
                           !.msgs = @ \cup {MsgFor("Removed organization", remove_org)}]
           ELSE [st EXCEPT !.msgs = @ \cup {MsgFor("not found", remove_org)}]
      ELSE [st EXCEPT !.config.orgs = SplitOrgs(org_str),
                      !.updated = TRUE,
                      !.msgs = @ \cup {Msg("Updated organizations")}]

SetUsername(st, u) ==
    IF IsSome(u)
    THEN [st EXCEPT !.config.username = Unwrap(u), !.updated = TRUE]
    ELSE st

\* Mutant of SetPattern: the invalid pattern is reported but the command goes
\* on to save (the early return is missing).
SetPatternWithoutReturn(st, p) ==
    IF ~IsSome(p) THEN st
    ELSE LET new_pattern == Unwrap(p) IN
      IF to_lowercase(new_pattern) = PatNone
      THEN [st EXCEPT !.config.repo_pattern = None,
                      !.updated = TRUE,
                      !.msgs = @ \cup {Msg("Cleared repository filter pattern")}]
      ELSE IF RegexIsOk(new_pattern)
      THEN [st EXCEPT !.config.repo_pattern = Some(new_pattern),
                      !.updated = TRUE,
                      !.msgs = @ \cup {Msg("Updated repository filter pattern")}]
      ELSE [st EXCEPT !.updated = TRUE,
                      !.msgs = @ \cup {Msg("Invalid regex pattern")}]

\* Mutant of SetPattern: "none" is recognised in lower case only.
SetPatternCaseSensitive(st, p) ==
    IF ~IsSome(p) THEN st
    ELSE LET new_pattern == Unwrap(p) IN
      IF new_pattern = PatNone
      THEN [st EXCEPT !.config.repo_pattern = None,
                      !.updated = TRUE,
                      !.msgs = @ \cup {Msg("Cleared repository filter pattern")}]
      ELSE IF RegexIsOk(new_pattern)
      THEN [st EXCEPT !.config.repo_pattern = Some(new_pattern),
                      !.updated = TRUE,
                      !.msgs = @ \cup {Msg("Updated repository filter pattern")}]
      ELSE [st EXCEPT !.rejected = TRUE,
                      !.msgs = @ \cup {Msg("Invalid regex pattern")}]

SetPattern(st, p) ==
    IF ~IsSome(p) THEN st
    ELSE LET new_pattern == Unwrap(p) IN
      IF to_lowercase(new_pattern) = PatNone
      THEN [st EXCEPT !.config.repo_pattern = None,
                      !.updated = TRUE,
                      !.msgs = @ \cup {Msg("Cleared repository filter pattern")}]
      ELSE IF RegexIsOk(new_pattern)
      THEN [st EXCEPT !.config.repo_pattern = Some(new_pattern),
                      !.updated = TRUE,
                      !.msgs = @ \cup {Msg("Updated repository filter pattern")}]
      ELSE [st EXCEPT !.rejected = TRUE,
                      !.msgs = @ \cup {Msg("Invalid regex pattern")}]

\* The Set branch of main on a loaded configuration.
SetBranch(cfg, a) ==
    SetPattern(
      SetUsername(
        SetOrgs([config |-> cfg, updated |-> FALSE, rejected |-> FALSE, msgs |-> {}],
                a.orgs),
        a.username),
      a.repo_pattern)

CmdSet ==
    \E o \in Opt(OrgArgs), u \in Opt(Usernames), p \in Opt(Patterns) :
      LET a == Args(o, u, FALSE, p) IN
        /\ Start("set", a)
        /\ IF ~LoadOk
           THEN /\ ExitErr("Configuration not found", {})
                /\ UNCHANGED config_file
           ELSE LET st == SetBranch(Load, a) IN
                IF st.rejected
                THEN /\ ExitOk(st.msgs)
                     /\ UNCHANGED config_file
                ELSE IF st.updated
                THEN /\ config_file' = Some(Serialize(st.config))
                     /\ ExitOk(st.msgs \cup {Msg("Configuration updated successfully")})
                ELSE /\ ExitOk(st.msgs \cup {Msg("No changes specified")})
                     /\ UNCHANGED config_file
        /\ calls' = <<>>
        /\ SearchReset
        /\ UNCHANGED <<platform, libVars>>

(***************************************************************************)
(* gh as the program sees it.  Command::output() fails to spawn, or the    *)
(* process exits nonzero, or it exits zero with a stdout that is not       *)
(* UTF-8, is not the expected JSON, or is the JSON of what the platform    *)
(* holds.                                                                  *)
(***************************************************************************)
AuthKinds == {"spawn_error", "exit_failure", "ok"}
FailureKinds == {"spawn_error", "exit_failure", "not_utf8", "bad_json"}

\* gh repo list <org> --json name --limit 1000
RepoListOutcomes(org) ==
    [kind : FailureKinds, items : {<<>>}]
      \cup (IF org \in DOMAIN platform.repos
            THEN {[kind |-> "ok", items |-> platform.repos[org]]}
            ELSE {})

Authored(prs, login) == SelectSeq(prs, LAMBDA pr : pr.author = login)

\* gh pr list --repo <org/name> --json ... --state open [--author <username>]
\* With --author the platform returns the pull requests of that author; the
\* program does not rely on it, so the unscoped list is an outcome too.
PrListOutcomes(repo_name, author) ==
    [kind : FailureKinds, items : {<<>>}]
      \cup (IF repo_name \in DOMAIN platform.prs
            THEN {[kind |-> "ok", items |-> platform.prs[repo_name]]}
                   \cup (IF IsSome(author)
                         THEN {[kind |-> "ok",
                                items |-> Authored(platform.prs[repo_name], Unwrap(author))]}
                         ELSE {})
            ELSE {})

(***************************************************************************)
(* rr config                                                               *)
(***************************************************************************)
CmdConfig ==
    /\ Start("config", Args(None, None, FALSE, None))
    /\ IF LoadOk
       THEN \E k \in AuthKinds :
              /\ calls' = <<Call("auth_status", <<>>, None, k, <<>>)>>
              /\ ExitOk({Msg("Current configuration"),
                         IF k = "ok" THEN Msg("Authenticated") ELSE Msg("Not authenticated")})
       ELSE /\ calls' = <<>>
            /\ ExitOk({Msg("Configuration not found")})
    /\ SearchReset
    /\ UNCHANGED <<config_file, platform, libVars>>

(***************************************************************************)
(* rr [--orgs o] [--username u] [--own] [-r pattern]: the search run.      *)
(***************************************************************************)
CmdSearch ==
    \E o \in Opt(SearchOrgArgs), u \in Opt(SearchUsernames), own \in BOOLEAN,
       p \in Opt(SearchPatterns) :
      /\ Start("search", Args(o, u, own, p))
      /\ pc' = "auth"
      /\ exit_code' = 0
      /\ error' = "none"
      /\ output' = {}
      /\ calls' = <<>>
      /\ SearchReset
      /\ UNCHANGED <<config_file, platform, libVars>>

\* Mutant of AuthCheck: a failed probe is reported and the run goes on.
AuthCheckGoingOn ==
    /\ pc = "auth"
    /\ \E k \in AuthKinds :
         /\ calls' = Append(calls, Call("auth_status", <<>>, None, k, <<>>))
         /\ CASE k = "spawn_error" -> ExitErr("spawn", output)
              [] k = "exit_failure" -> /\ pc' = "load"
                                       /\ output' = output \cup {Msg("not authenticated")}
                                       /\ UNCHANGED <<exit_code, error>>
              [] OTHER -> /\ pc' = "load"
                          /\ UNCHANGED <<exit_code, error, output>>
    /\ UNCHANGED <<config_file, platform, libVars, ncmds, command, args>>
    /\ UNCHANGED searchVars

\* main: gh auth status, checked before the configuration is loaded.
AuthCheck ==
    /\ pc = "auth"
    /\ \E k \in AuthKinds :
         /\ calls' = Append(calls, Call("auth_status", <<>>, None, k, <<>>))
         /\ CASE k = "spawn_error" -> ExitErr("spawn", output)
              [] k = "exit_failure" -> ExitOk(output \cup {Msg("not authenticated")})
              [] OTHER -> /\ pc' = "load"
                          /\ UNCHANGED <<exit_code, error, output>>
    /\ UNCHANGED <<config_file, platform, libVars, ncmds, command, args>>
    /\ UNCHANGED searchVars

\* A command-line value when given, the stored value otherwise.
\* Mutant of EffectivePattern: a stored pattern wins over the override.
EffectivePatternStoredFirst(cfg, a) ==
    IF IsSome(cfg.repo_pattern) THEN cfg.repo_pattern ELSE a.repo_pattern

EffectiveOrgs(cfg, a) == IF IsSome(a.orgs) THEN SplitOrgs(Unwrap(a.orgs)) ELSE cfg.orgs
EffectiveUsername(cfg, a) == IF IsSome(a.username) THEN Unwrap(a.username) ELSE cfg.username
EffectivePattern(cfg, a) == IF IsSome(a.repo_pattern) THEN a.repo_pattern ELSE cfg.repo_pattern

\* Mutant of LoadAndResolve: an empty organization list is not rejected.
LoadAndResolveWithoutOrgCheck ==
    /\ pc = "load"
    /\ IF ~LoadOk
       THEN /\ ExitErr("Configuration not found", output)
            /\ UNCHANGED searchVars
       ELSE /\ orgs' = EffectiveOrgs(Load, args)
            /\ username' = EffectiveUsername(Load, args)
            /\ repo_pattern' = EffectivePattern(Load, args)
            /\ own_prs' = args.own_prs
            /\ pc' = "list_repos"
            /\ UNCHANGED <<exit_code, error, output>>
            /\ UNCHANGED <<idx, all_repos, filtered_repos, checked_repos, all_prs>>
    /\ UNCHANGED <<config_file, platform, libVars, ncmds, command, args, calls>>

\* Mutant of LoadAndResolve: the effective values are saved as the new
\* configuration before the search starts.
LoadAndResolveSavingOverrides ==
    /\ pc = "load"
    /\ IF ~LoadOk
       THEN /\ ExitErr("Configuration not found", output)
            /\ UNCHANGED <<config_file, searchVars>>
       ELSE IF EffectiveOrgs(Load, args) = <<>>
       THEN /\ ExitErr("No organizations configured", output)
            /\ UNCHANGED <<config_file, searchVars>>
       ELSE /\ orgs' = EffectiveOrgs(Load, args)
            /\ username' = EffectiveUsername(Load, args)
            /\ repo_pattern' = EffectivePattern(Load, args)
            /\ config_file' = Some(Serialize(Config(EffectiveOrgs(Load, args),
                                                     EffectiveUsername(Load, args),
                                                     EffectivePattern(Load, args))))
            /\ own_prs' = args.own_prs
            /\ pc' = "list_repos"
            /\ UNCHANGED <<exit_code, error, output>>
            /\ UNCHANGED <<idx, all_repos, filtered_repos, checked_repos, all_prs>>
    /\ UNCHANGED <<platform, libVars, ncmds, command, args, calls>>

\* main: Config::load, the effective values, and the call of search_prs.
LoadAndResolve ==
    /\ pc = "load"
    /\ IF ~LoadOk
       THEN /\ ExitErr("Configuration not found", output)
            /\ UNCHANGED searchVars
       ELSE IF EffectiveOrgs(Load, args) = <<>>
       THEN /\ ExitErr("No organizations configured", output)
            /\ UNCHANGED searchVars
       ELSE /\ orgs' = EffectiveOrgs(Load, args)
            /\ username' = EffectiveUsername(Load, args)
            /\ repo_pattern' = EffectivePattern(Load, args)
            /\ own_prs' = args.own_prs
            /\ pc' = "list_repos"
            /\ UNCHANGED <<exit_code, error, output>>
            /\ UNCHANGED <<idx, all_repos, filtered_repos, checked_repos, all_prs>>
    /\ UNCHANGED <<config_file, platform, libVars, ncmds, command, args, calls>>

\* for repo in &mut org_repos { repo.org = org.clone(); }
TagRepos(names, org) == [i \in 1..Len(names) |-> GhRepo(names[i], org)]

\* search_prs: one turn of the loop over the organizations.
ListRepos ==
    /\ pc = "list_repos"
    /\ idx < Len(orgs)
    /\ LET org == orgs[idx + 1] IN
       \E out \in RepoListOutcomes(org) :
         /\ calls' = Append(calls, Call("repo_list", org, None, out.kind, out.items))
         /\ CASE out.kind = "spawn_error" ->
                   /\ ExitErr("spawn", output)
                   /\ UNCHANGED <<idx, all_repos>>
              [] out.kind = "exit_failure" ->
                   /\ output' = output \cup {MsgFor("Failed to list repositories", org)}
                   /\ idx' = idx + 1
                   /\ UNCHANGED <<pc, exit_code, error, all_repos>>
              [] out.kind = "not_utf8" ->
                   /\ ExitErr("utf8", output)
                   /\ UNCHANGED <<idx, all_repos>>
              [] out.kind = "bad_json" ->
                   /\ ExitErr("json", output)
                   /\ UNCHANGED <<idx, all_repos>>
              [] OTHER ->
                   /\ all_repos' = all_repos \o TagRepos(out.items, org)
                   /\ idx' = idx + 1
                   /\ UNCHANGED <<pc, exit_code, error, output>>
    /\ UNCHANGED <<config_file, platform, libVars, ncmds, command, args>>
    /\ UNCHANGED <<orgs, username, own_prs, repo_pattern, filtered_repos, checked_repos, all_prs>>

\* Mutant of FilterByName: the pattern is tried on the organization-qualified name.
RECURSIVE FilterByQualifiedName(_, _)
FilterByQualifiedName(repos, regex) ==
    IF repos = <<>> THEN <<>>
    ELSE IF is_match(regex, RepoName(Head(repos)))
         THEN <<Head(repos)>> \o FilterByQualifiedName(Tail(repos), regex)
         ELSE FilterByQualifiedName(Tail(repos), regex)

\* repos.into_iter().filter(|repo| regex.is_match(&repo.name)).collect()
RECURSIVE FilterByName(_, _)
FilterByName(repos, regex) ==
    IF repos = <<>> THEN <<>>
    ELSE IF is_match(regex, Head(repos).name)
         THEN <<Head(repos)>> \o FilterByName(Tail(repos), regex)
         ELSE FilterByName(Tail(repos), regex)

\* Mutant of FilterRepos: a valid pattern is compiled and every repository is kept.
FilterReposKeepingAll ==
    /\ pc = "list_repos"
    /\ idx = Len(orgs)
    /\ IF IsSome(repo_pattern) /\ RegexNew(Unwrap(repo_pattern)).kind = "error"
       THEN /\ ExitErr("Invalid regex pattern", output)
            /\ UNCHANGED filtered_repos
       ELSE /\ filtered_repos' = all_repos
            /\ pc' = "fetch_prs"
            /\ UNCHANGED <<exit_code, error, output>>
    /\ UNCHANGED <<config_file, platform, libVars, ncmds, command, args, calls>>
    /\ UNCHANGED <<orgs, username, own_prs, repo_pattern, idx, all_repos, checked_repos, all_prs>>

\* search_prs: the repository filter, once every organization was listed.
FilterRepos ==
    /\ pc = "list_repos"
    /\ idx = Len(orgs)
    /\ IF IsSome(repo_pattern)
       THEN LET regex == RegexNew(Unwrap(repo_pattern)) IN
            IF regex.kind = "error"
            THEN /\ ExitErr("Invalid regex pattern", output)
                 /\ UNCHANGED filtered_repos
            ELSE /\ filtered_repos' = FilterByName(all_repos, regex)
                 /\ pc' = "fetch_prs"
                 /\ UNCHANGED <<exit_code, error, output>>
       ELSE /\ filtered_repos' = all_repos
            /\ pc' = "fetch_prs"
            /\ UNCHANGED <<exit_code, error, output>>
    /\ UNCHANGED <<config_file, platform, libVars, ncmds, command, args, calls>>
    /\ UNCHANGED <<orgs, username, own_prs, repo_pattern, idx, all_repos, checked_repos, all_prs>>

\* Mutant of is_requested: logins are compared without regard to case.
LowerLogin(l) == IF l = "Alice" THEN "alice" ELSE l

is_requested_ignoring_case(pr, user) ==
    \E i \in 1..Len(pr.review_requests) :
      LowerLogin(pr.review_requests[i]) = LowerLogin(user)

\* pr.review_requests.iter().any(|req| req.login == username)
is_requested(pr, user) ==
    \E i \in 1..Len(pr.review_requests) : pr.review_requests[i] = user

\* Mutant of PushPrs: own-PR mode checks the author again.
RECURSIVE PushPrsCheckingAuthor(_, _, _, _)
PushPrsCheckingAuthor(acc, prs, own, user) ==
    IF prs = <<>> THEN acc
    ELSE LET pr == Head(prs)
             keep == IF own THEN pr.author = user
                     ELSE \E i \in 1..Len(pr.review_requests) : pr.review_requests[i] = user IN
      PushPrsCheckingAuthor(IF keep THEN Append(acc, PullRequest(pr)) ELSE acc,
                            Tail(prs), own, user)

\* Mutant of PushPrs: a kept pull request is put in front of the earlier ones.
RECURSIVE PushPrsInFront(_, _, _, _)
PushPrsInFront(acc, prs, own, user) ==
    IF prs = <<>> THEN acc
    ELSE LET pr == Head(prs)
             keep == own \/ \E i \in 1..Len(pr.review_requests) : pr.review_requests[i] = user IN
      PushPrsInFront(IF keep THEN <<PullRequest(pr)>> \o acc ELSE acc, Tail(prs), own, user)

\* for pr in prs { ... all_prs.push(...) ... }
RECURSIVE PushPrs(_, _, _, _)
PushPrs(acc, prs, own, user) ==
    IF prs = <<>> THEN acc
    ELSE LET pr == Head(prs) IN
      IF own
      THEN PushPrs(Append(acc, PullRequest(pr)), Tail(prs), own, user)
      ELSE IF is_requested(pr, user)
           THEN PushPrs(Append(acc, PullRequest(pr)), Tail(prs), own, user)
           ELSE PushPrs(acc, Tail(prs), own, user)

\* search_prs: one turn of the loop over the filtered repositories.
FetchPrs ==
    /\ pc = "fetch_prs"
    /\ checked_repos < Len(filtered_repos)
    /\ LET repo == filtered_repos[checked_repos + 1]
           repo_name == RepoName(repo)
           author == IF own_prs THEN Some(username) ELSE None IN
       \E out \in PrListOutcomes(repo_name, author) :
         /\ calls' = Append(calls, Call("pr_list", repo_name, author, out.kind, out.items))
         /\ checked_repos' = checked_repos + 1
         /\ CASE out.kind = "spawn_error" ->
                   /\ ExitErr("spawn", output)
                   /\ UNCHANGED all_prs
              [] out.kind = "exit_failure" ->
                   UNCHANGED <<pc, exit_code, error, output, all_prs>>
              [] out.kind = "not_utf8" ->
                   /\ ExitErr("utf8", output)
                   /\ UNCHANGED all_prs
              [] out.kind = "bad_json" ->
                   \* serde_json::from_str(..).unwrap_or_default()
                   /\ all_prs' = PushPrs(all_prs, <<>>, own_prs, username)
                   /\ UNCHANGED <<pc, exit_code, error, output>>
              [] OTHER ->
                   /\ all_prs' = PushPrs(all_prs, out.items, own_prs, username)
                   /\ UNCHANGED <<pc, exit_code, error, output>>
    /\ UNCHANGED <<config_file, platform, libVars, ncmds, command, args>>
    /\ UNCHANGED <<orgs, username, own_prs, repo_pattern, idx, all_repos, filtered_repos>>

\* search_prs returns Ok(all_prs).
ReturnPrs ==
    /\ pc = "fetch_prs"
    /\ checked_repos = Len(filtered_repos)
    /\ pc' = "render"
    /\ UNCHANGED <<config_file, platform, libVars, ncmds, command, args, exit_code, error, output, calls>>
    /\ UNCHANGED searchVars

\* main: the result is printed.
Render ==
    /\ pc = "render"
    /\ IF all_prs = <<>>
       THEN ExitOk(output \cup {Msg("No PRs found")})
       ELSE ExitOk(output \cup {Msg("Found PR(s)")})
    /\ UNCHANGED <<config_file, platform, libVars, ncmds, command, args, calls>>
    /\ UNCHANGED searchVars

\* The process that ended is gone: its memory is released and the shell
\* is ready for the next command.  Only the file and the platform stay.
ProcessExit ==
    /\ pc = "exited"
    /\ pc' = "shell"
    /\ command' = "none"
    /\ args' = Args(None, None, FALSE, None)
    /\ exit_code' = 0
    /\ error' = "none"
    /\ output' = {}
    /\ calls' = <<>>
    /\ SearchReset
    /\ UNCHANGED <<config_file, platform, libVars, ncmds>>

Next ==
    \/ CmdInit
    \/ CmdSet
    \/ CmdConfig
    \/ CmdSearch
    \/ AuthCheck
    \/ LoadAndResolve
    \/ ListRepos
    \/ FilterRepos
    \/ FetchPrs
    \/ ReturnPrs
    \/ Render
    \/ ProcessExit

Spec == Init /\ [][Next]_vars

(***************************************************************************)
(* What the gh invocations of the running process returned.                *)
(***************************************************************************)
LastCall == calls[Len(calls)]

\* Nonzero exit or unparseable payload.
FailedKinds == {"exit_failure", "not_utf8", "bad_json"}

\* The repositories of the organizations whose listing succeeded, in call order.
RECURSIVE ListedRepos(_)
ListedRepos(cs) ==
    IF cs = <<>> THEN <<>>
    ELSE LET c == Head(cs) IN
      (IF c.op = "repo_list" /\ c.kind = "ok"
       THEN [i \in 1..Len(c.items) |-> [name |-> c.items[i], org |-> c.target]]
       ELSE <<>>) \o ListedRepos(Tail(cs))

\* The pull-request records of the listings that succeeded, in call order.
RECURSIVE Fetched(_)
Fetched(cs) ==
    IF cs = <<>> THEN <<>>
    ELSE LET c == Head(cs) IN
      (IF c.op = "pr_list" /\ c.kind = "ok" THEN c.items ELSE <<>>) \o Fetched(Tail(cs))

CallsOf(op) == {k \in 1..Len(calls) : calls[k].op = op}

SearchReturned == command = "search" /\ pc = "render"

(***************************************************************************)
(* C1.  When the repository listing of one organization fails (nonzero     *)
(* exit or unparseable payload), the organization is skipped, the run is   *)
(* not aborted by it, and the repositories enumerated are exactly those of *)
(* the organizations listed successfully, in order.                        *)
(***************************************************************************)
C1_FailedOrgIsSkipped ==
    command = "search" =>
      /\ all_repos = ListedRepos(calls)
      /\ (/\ calls # <<>>
          /\ LastCall.op = "repo_list"
          /\ LastCall.kind \in FailedKinds) => error \notin {"utf8", "json"}

(***************************************************************************)
(* C2.  When the pull-request listing of one repository fails or returns   *)
(* an unparseable payload, the repository contributes nothing, no error is *)
(* surfaced, and the later repositories are still fetched.                 *)
(***************************************************************************)
C2_FailedRepoIsSkipped ==
    command = "search" =>
      /\ (/\ calls # <<>>
          /\ LastCall.op = "pr_list"
          /\ LastCall.kind \in FailedKinds) => error = "none"
      /\ SearchReturned => Cardinality(CallsOf("pr_list")) = Len(filtered_repos)

(***************************************************************************)
(* C3.  In review-requested mode the pull requests search_prs returns are  *)
(* exactly the fetched records whose reviewer-request list has an entry    *)
(* equal to the username, in fetch order; a record with an empty           *)
(* reviewer-request list is never returned.                                *)
(***************************************************************************)
Requested(pr, user) == user \in {pr.review_requests[i] : i \in 1..Len(pr.review_requests)}

SameRecord(out, pr) ==
    /\ out.number = pr.number
    /\ out.title = pr.title
    /\ out.html_url = pr.url
    /\ out.user = pr.author

SameRecords(outs, prs) ==
    /\ Len(outs) = Len(prs)
    /\ \A i \in 1..Len(prs) : SameRecord(outs[i], prs[i])

C3_ReviewRequestedSubset ==
    (SearchReturned /\ ~own_prs) =>
      /\ SameRecords(all_prs,
                     SelectSeq(Fetched(calls), LAMBDA pr : Requested(pr, username)))
      /\ \A k \in 1..Len(Fetched(calls)) :
           Fetched(calls)[k].review_requests = <<>> =>
             \A i \in 1..Len(all_prs) : ~SameRecord(all_prs[i], Fetched(calls)[k])

\* A run that returned some of the fetched records and dropped others, one of
\* them requesting review from "Alice" while the username is "alice".
C3_Witness ==
    /\ SearchReturned
    /\ ~own_prs
    /\ username = "alice"
    /\ Len(all_prs) >= 2
    /\ Len(all_prs) < Len(Fetched(calls))
    /\ \E k \in 1..Len(Fetched(calls)) : Requested(Fetched(calls)[k], "Alice")
    /\ \E k \in 1..Len(Fetched(calls)) : Fetched(calls)[k].review_requests = <<>>

(***************************************************************************)
(* C4.  In own-PR mode every fetched record is returned unchanged and in   *)
(* fetch order, whatever its author and reviewer-request list.             *)
(***************************************************************************)
C4_OwnIsIdentity ==
    (SearchReturned /\ own_prs) => SameRecords(all_prs, Fetched(calls))

\* An own-PR run that returned a record of another author and a record with
\* no review request.
C4_Witness ==
    /\ SearchReturned
    /\ own_prs
    /\ \E i \in 1..Len(all_prs) : all_prs[i].user # username
    /\ \E k \in 1..Len(Fetched(calls)) : Fetched(calls)[k].review_requests = <<>>
    /\ Len(Fetched(calls)) >= 3

(***************************************************************************)
(* C5.  The repository filter returns the enumerated repositories          *)
(* unchanged when there is no pattern; with a valid pattern it returns     *)
(* exactly the repositories whose bare name matches, in their order.       *)
(***************************************************************************)
C5_FilterByBareName ==
    (command = "search" /\ pc \in {"fetch_prs", "render"}) =>
      IF IsSome(repo_pattern)
      THEN /\ RegexIsOk(Unwrap(repo_pattern))
           /\ filtered_repos =
                SelectSeq(all_repos,
                          LAMBDA r : is_match(RegexNew(Unwrap(repo_pattern)), r.name))
      ELSE filtered_repos = all_repos

\* A filter that kept some repositories and removed one whose
\* organization-qualified name would have matched.
C5_Witness ==
    /\ command = "search"
    /\ pc = "fetch_prs"
    /\ IsSome(repo_pattern)
    /\ filtered_repos # <<>>
    /\ \E i \in 1..Len(all_repos) :
         /\ ~is_match(RegexNew(Unwrap(repo_pattern)), all_repos[i].name)
         /\ is_match(RegexNew(Unwrap(repo_pattern)), RepoName(all_repos[i]))

(***************************************************************************)
(* C6.  The repository pattern stored in the configuration file is either  *)
(* absent or a string that passes regular-expression validation.           *)
(***************************************************************************)
C6_StoredPatternIsValid ==
    IsSome(config_file) =>
      \/ Load.repo_pattern = None
      \/ RegexIsOk(Unwrap(Load.repo_pattern))

(***************************************************************************)
(* C7.  A set command with a syntactically invalid repository pattern      *)
(* reports an error and leaves the configuration file as it was, whatever  *)
(* organization or username change came with it.                           *)
(***************************************************************************)
\* This step runs a whole set command whose pattern argument is p.
SetRunsWith(p) ==
    /\ ncmds' = ncmds + 1
    /\ command' = "set"
    /\ args'.repo_pattern = Some(p)

C7_InvalidPatternChangesNothing ==
    [][(SetRunsWith(PatInvalid) /\ IsSome(config_file)) =>
         /\ config_file' = config_file
         /\ Msg("Invalid regex pattern") \in output'
         /\ Msg("Configuration updated successfully") \notin output']_vars

\* A set command that announced a new organization and was then rejected for
\* its pattern: neither the organization nor the username it gave is stored.
C7_Witness ==
    /\ command = "set"
    /\ pc = "exited"
    /\ args.repo_pattern = Some(PatInvalid)
    /\ IsSome(config_file)
    /\ MsgFor("Added organization", OrgB) \in output
    /\ ~contains(Load.orgs, OrgB)
    /\ IsSome(args.username)
    /\ Load.username # Unwrap(args.username)

(***************************************************************************)
(* C8.  A set command whose pattern is "none" in any letter case clears    *)
(* the stored pattern, whatever it was; "none" is never stored by set.     *)
(***************************************************************************)
C8_NoneClearsPattern ==
    [][\A p \in {PatNone, PatNoneUpper} :
         (SetRunsWith(p) /\ IsSome(config_file)) =>
           /\ IsSome(config_file')
           /\ "repo_pattern" \notin DOMAIN Unwrap(config_file')
           /\ Deserialize(Unwrap(config_file')).repo_pattern = None]_vars

\* A set command given "NoNE" has run and the file holds no pattern.
C8_Witness ==
    /\ command = "set"
    /\ pc = "exited"
    /\ args.repo_pattern = Some(PatNoneUpper)
    /\ IsSome(config_file)
    /\ Load.repo_pattern = None
    /\ Msg("Cleared repository filter pattern") \in output

(***************************************************************************)
(* C9.  In a search run the authentication probe comes before anything     *)
(* else; when it reports not authenticated the run ends there and no       *)
(* repository or pull-request listing is ever invoked.                     *)
(***************************************************************************)
C9_AuthenticationFirst ==
    command = "search" =>
      /\ pc = "auth" => (calls = <<>> /\ orgs = <<>> /\ output = {})
      /\ pc # "auth" => (calls # <<>> /\ calls[1].op = "auth_status")
      /\ (calls # <<>> /\ calls[1].kind # "ok") =>
           /\ pc = "exited"
           /\ CallsOf("repo_list") = {}
           /\ CallsOf("pr_list") = {}
           /\ orgs = <<>>
           /\ error # "Configuration not found"

\* A run that had organizations to search and stopped at the probe.
C9_Witness ==
    /\ command = "search"
    /\ pc = "exited"
    /\ calls # <<>>
    /\ calls[1].kind = "exit_failure"
    /\ Msg("not authenticated") \in output
    /\ IsSome(config_file)
    /\ Load.orgs # <<>>

(***************************************************************************)
(* C10.  How a command ends.  The configuration file a process found is    *)
(* the one still there when it has ended, unless it was init or a set      *)
(* that saved.                                                             *)
(***************************************************************************)
Ended == pc = "exited"

ProbeOk == calls # <<>> /\ calls[1].op = "auth_status" /\ calls[1].kind = "ok"
ProbeRefused == calls # <<>> /\ calls[1].op = "auth_status" /\ calls[1].kind = "exit_failure"

MissingFileInSet == command = "set" /\ ~IsSome(config_file)
MissingFileInConfig == command = "config" /\ ~IsSome(config_file)
MissingFileInSearch == command = "search" /\ ProbeOk /\ ~IsSome(config_file)
InvalidPatternInSet ==
    command = "set" /\ IsSome(config_file) /\ args.repo_pattern = Some(PatInvalid)
NotAuthenticated == command = "search" /\ ProbeRefused
ZeroOrganizations ==
    command = "search" /\ ProbeOk /\ IsSome(config_file) /\ EffectiveOrgs(Load, args) = <<>>
ResultPrinted ==
    command = "search" /\ (Msg("No PRs found") \in output \/ Msg("Found PR(s)") \in output)
SkippedSomething ==
    \E k \in 1..Len(calls) :
      calls[k].op \in {"repo_list", "pr_list"} /\ calls[k].kind = "exit_failure"

EmptyEffectiveOrgs ==
    command = "search" /\ IsSome(config_file) /\ EffectiveOrgs(Load, args) = <<>>

EndsWithNoOrganizations ==
    /\ exit_code # 0
    /\ error = "No organizations configured"
    /\ CallsOf("repo_list") = {}
    /\ CallsOf("pr_list") = {}
    /\ ~ResultPrinted

Resolved == command = "search" /\ pc \in {"list_repos", "fetch_prs", "render"}

OrgsInUse ==
    IF args.orgs = None THEN Load.orgs ELSE SplitOrgs(Unwrap(args.orgs))

UsernameInUse ==
    IF args.username = None THEN Load.username ELSE Unwrap(args.username)

PatternInUse ==
    IF args.repo_pattern = None THEN Load.repo_pattern ELSE args.repo_pattern

OverridePrecedence ==
    Resolved =>
      /\ orgs = OrgsInUse
      /\ username = UsernameInUse
      /\ repo_pattern = PatternInUse
      /\ \A i \in 1..Len(calls) :
           /\ calls[i].op = "repo_list" =>
                \E j \in 1..Len(OrgsInUse) : calls[i].target = OrgsInUse[j]
           /\ calls[i].op = "pr_list" =>
                calls[i].author = IF args.own_prs THEN Some(UsernameInUse) ELSE None
      /\ pc \in {"fetch_prs", "render"} =>
           filtered_repos = IF PatternInUse = None THEN all_repos
                            ELSE FilterByName(all_repos, RegexNew(Unwrap(PatternInUse)))

C12_OverridePrecedence ==
    /\ []OverridePrecedence
    /\ [][command' = "search" => config_file' = config_file]_vars

\* A run with overridden organizations and pattern and the stored username
\* has fetched its pull requests; the stored pattern is another one.
C12_Witness ==
    /\ command = "search" /\ pc = "render"
    /\ IsSome(args.orgs) /\ orgs # Load.orgs
    /\ ~IsSome(args.username) /\ username = "alice"
    /\ args.repo_pattern = Some(PatS) /\ Load.repo_pattern = Some(PatA)
    /\ args.own_prs
    /\ CallsOf("pr_list") # {}

(***************************************************************************)
(* The library crate (lib.rs).  Its operations on a Config are functions   *)
(* from (self, argument) to (self afterwards, returned value); a caller    *)
(* holds one Config and calls them one after the other.                    *)
(***************************************************************************)

\* Mutant of add_org: the organization is pushed without looking for it.
add_org_unchecked(self, org) ==
    [self |-> [self EXCEPT !.orgs = Append(@, org)], ret |-> TRUE]

\* pub fn add_org(&mut self, org: String) -> bool
add_org(self, org) ==
    IF ~contains(self.orgs, org)
    THEN [self |-> [self EXCEPT !.orgs = Append(@, org)], ret |-> TRUE]
    ELSE [self |-> self, ret |-> FALSE]

\* pub fn remove_org(&mut self, org: &str) -> bool
remove_org(self, org) ==
    LET pos == position(self.orgs, org) IN
      IF pos # 0
      THEN [self |-> [self EXCEPT !.orgs = remove(@, pos)], ret |-> TRUE]
      ELSE [self |-> self, ret |-> FALSE]

\* pub fn set_orgs(&mut self, orgs: Vec<String>)
set_orgs(self, new_orgs) ==
    [self |-> [self EXCEPT !.orgs = new_orgs], ret |-> "unit"]

\* pub fn set_repo_pattern(&mut self, pattern: Option<String>) -> Result<()>
set_repo_pattern(self, pattern) ==
    IF IsSome(pattern)
    THEN LET p == Unwrap(pattern) IN
         IF to_lowercase(p) = PatNone
         THEN [self |-> [self EXCEPT !.repo_pattern = None], ret |-> "Ok"]
         ELSE IF ~RegexIsOk(p)
         THEN [self |-> self, ret |-> "Err"]
         ELSE [self |-> [self EXCEPT !.repo_pattern = pattern], ret |-> "Ok"]
    ELSE [self |-> [self EXCEPT !.repo_pattern = pattern], ret |-> "Ok"]

\* pub enum OrgModification { Add(String), Remove(String), Replace(Vec<String>) }
Add(org) == [kind |-> "Add", org |-> org]
Remove(org) == [kind |-> "Remove", org |-> org]
Replace(new_orgs) == [kind |-> "Replace", orgs |-> new_orgs]

\* pub fn parse_org_modification(org_str: &str) -> OrgModification
parse_org_modification(org_str) ==
    IF starts_with(org_str, "+") THEN Add(trim(Tail(org_str)))
    ELSE IF starts_with(org_str, "-") THEN Remove(trim(Tail(org_str)))
    ELSE Replace(SplitOrgs(org_str))

\* Organization arguments a caller parses: those of the command line and
\* more additions and removals, and a list that names an organization twice.
ModificationArgs ==
    OrgArgs \cup { <<"+", "a">>, <<"+", "c">>, <<"-", "b">>, <<"-", " ", "c">>,
                   <<"a", ",", "a">>, <<"b", ",", "a", ",", "b">> }

\* The Config values a caller starts from (the struct literals of the tests).
LibInitialConfigs ==
    { Config(o, "alice", p) :
        o \in {<<>>, <<OrgA>>, <<OrgA, OrgB>>, <<OrgB, OrgC, OrgA>>},
        p \in {None, Some(PatA)} }

LibCall(op, str, arg, ret) == [op |-> op, str |-> str, arg |-> arg, ret |-> ret]

\* The rr binary is not running while the library is exercised.
LibInit ==
    /\ lib_config \in LibInitialConfigs
    /\ lib_call = [op |-> "none"]
    /\ config_file = None
    /\ platform = [repos |-> <<>>, prs |-> <<>>]
    /\ pc = "shell"
    /\ ncmds = 0
    /\ command = "none"
    /\ args = Args(None, None, FALSE, None)
    /\ exit_code = 0
    /\ error = "none"
    /\ output = {}
    /\ calls = <<>>
    /\ orgs = <<>>
    /\ username = ""
    /\ own_prs = FALSE
    /\ repo_pattern = None
    /\ idx = 0
    /\ all_repos = <<>>
    /\ filtered_repos = <<>>
    /\ checked_repos = 0
    /\ all_prs = <<>>

\* parse_org_modification(s) gave Add(org): config.add_org(org).
LibAddOrg ==
    \E s \in ModificationArgs :
      LET m == parse_org_modification(s) IN
        /\ m.kind = "Add"
        /\ lib_config' = add_org(lib_config, m.org).self
        /\ lib_call' = LibCall("add_org", s, m.org, add_org(lib_config, m.org).ret)
        /\ UNCHANGED vars_of_rr

\* parse_org_modification(s) gave Remove(org): config.remove_org(&org).
LibRemoveOrg ==
    \E s \in ModificationArgs :
      LET m == parse_org_modification(s) IN
        /\ m.kind = "Remove"
        /\ lib_config' = remove_org(lib_config, m.org).self
        /\ lib_call' = LibCall("remove_org", s, m.org, remove_org(lib_config, m.org).ret)
        /\ UNCHANGED vars_of_rr

\* parse_org_modification(s) gave Replace(orgs): config.set_orgs(orgs).
LibSetOrgs ==
    \E s \in ModificationArgs :
      LET m == parse_org_modification(s) IN
        /\ m.kind = "Replace"
        /\ lib_config' = set_orgs(lib_config, m.orgs).self
        /\ lib_call' = LibCall("set_orgs", s, m.orgs, set_orgs(lib_config, m.orgs).ret)
        /\ UNCHANGED vars_of_rr

\* config.set_repo_pattern(pattern), the pattern argument handed over as it came.
LibSetRepoPattern ==
    \E p \in Opt(Patterns) :
      /\ lib_config' = set_repo_pattern(lib_config, p).self
      /\ lib_call' = LibCall("set_repo_pattern", <<>>, p, set_repo_pattern(lib_config, p).ret)
      /\ UNCHANGED vars_of_rr

LibNext ==
    \/ LibAddOrg
    \/ LibRemoveOrg
    \/ LibSetOrgs
    \/ LibSetRepoPattern

LibSpec == LibInit /\ [][LibNext]_vars

(***************************************************************************)
(* C13.  add_org(x) appends x at the end of the organization list and      *)
(* returns true exactly when x was not in the list; otherwise it returns   *)
(* false and leaves the list as it was.  So a list without duplicates      *)
(* stays without duplicates under additions and removals.                  *)
(***************************************************************************)
NoDuplicates(list) ==
    \A i, j \in 1..Len(list) : list[i] = list[j] => i = j

AddOrgContract ==
    lib_call'.op = "add_org" =>
      LET x == lib_call'.arg IN
        /\ lib_call'.ret = ~contains(lib_config.orgs, x)
        /\ lib_call'.ret => lib_config'.orgs = lib_config.orgs \o <<x>>
        /\ ~lib_call'.ret => lib_config'.orgs = lib_config.orgs
        /\ lib_config'.username = lib_config.username
        /\ lib_config'.repo_pattern = lib_config.repo_pattern

AddRemoveKeepNoDuplicates ==
    (lib_call'.op \in {"add_org", "remove_org"} /\ NoDuplicates(lib_config.orgs))
      => NoDuplicates(lib_config'.orgs)

C13_AddOrg == [][AddOrgContract /\ AddRemoveKeepNoDuplicates]_vars

\* add_org has appended a third organization to a list of two.
C13_Witness ==
    /\ lib_call.op = "add_org"
    /\ lib_call.ret
    /\ Len(lib_config.orgs) = 3
    /\ lib_config.orgs[3] = lib_call.arg
    /\ NoDuplicates(lib_config.orgs)

(***************************************************************************)
(* C14.  On every organization list that initial configurations,           *)
(* additions, removals and replacements lead to: when remove_org(x)        *)
(* returns true the list no longer contains x, is one element shorter and  *)
(* keeps the other elements in their order; when x is not in the list      *)
(* remove_org(x) returns false and the list is as it was.                  *)
(***************************************************************************)
RECURSIVE Without(_, _)
Without(list, x) ==
    IF list = <<>> THEN <<>>
    ELSE IF Head(list) = x THEN Without(Tail(list), x)
         ELSE <<Head(list)>> \o Without(Tail(list), x)

RemoveOrgContract ==
    lib_call'.op = "remove_org" =>
      LET x == lib_call'.arg IN
        /\ lib_call'.ret =>
             /\ ~contains(lib_config'.orgs, x)
             /\ Len(lib_config'.orgs) = Len(lib_config.orgs) - 1
             /\ lib_config'.orgs = Without(lib_config.orgs, x)
        /\ ~contains(lib_config.orgs, x) =>
             /\ ~lib_call'.ret
             /\ lib_config'.orgs = lib_config.orgs

C14_RemoveOrg == [][RemoveOrgContract]_vars

(***************************************************************************)
(* C15.  The pull requests search_prs returns are ordered by organization  *)
(* in the order of the organization list, then by repository in the        *)
(* platform's order within the organization, then in the platform's order  *)
(* of pull requests within the repository.                                 *)
(***************************************************************************)
RECURSIVE Concat(_)
Concat(seqs) == IF seqs = <<>> THEN <<>> ELSE Head(seqs) \o Concat(Tail(seqs))

\* The items gh returned for a target, nothing when the call was not answered.
ItemsOf(op, target) ==
    IF \E k \in 1..Len(calls) :
         calls[k].op = op /\ calls[k].target = target /\ calls[k].kind = "ok"
    THEN calls[CHOOSE k \in 1..Len(calls) :
                 calls[k].op = op /\ calls[k].target = target /\ calls[k].kind = "ok"].items
    ELSE <<>>

Among(x, list) == \E i \in 1..Len(list) : list[i] = x

PassesFilter(name) ==
    repo_pattern = None \/ is_match(RegexNew(Unwrap(repo_pattern)), name)

\* The pull requests of one repository that the run keeps, in the platform's order.
KeptOfRepo(repo_name) ==
    LET kept == SelectSeq(platform.prs[repo_name],
                          LAMBDA pr : /\ Among(pr, ItemsOf("pr_list", repo_name))
                                      /\ (own_prs \/ Requested(pr, username))) IN
      [i \in 1..Len(kept) |-> PullRequest(kept[i])]

\* Those of one organization, repository after repository in the platform's order.
KeptOfOrg(org) ==
    LET known == IF org \in DOMAIN platform.repos THEN platform.repos[org] ELSE <<>>
        names == SelectSeq(known,
                           LAMBDA n : Among(n, ItemsOf("repo_list", org)) /\ PassesFilter(n)) IN
      Concat([i \in 1..Len(names) |-> KeptOfRepo(RepoName(GhRepo(names[i], org)))])

C15_ResultOrder ==
    SearchReturned =>
      all_prs = Concat([i \in 1..Len(orgs) |-> KeptOfOrg(orgs[i])])

\* A run over two organizations has returned the five pull requests of three
\* repositories.
C15_Witness ==
    /\ SearchReturned
    /\ orgs = <<OrgA, OrgB>>
    /\ Len(all_prs) = 5
    /\ all_prs[1].number = 7
    /\ all_prs[3].number = 5
    /\ all_prs[4].number = 8

(***************************************************************************)
(* C16.  In a search run that reaches the fetch stage the pull requests    *)
(* are listed exactly once for each repository the filter let through,     *)
(* one at a time in the order of the filter's output and only after every  *)
(* organization listing has finished; never for a repository the filter    *)
(* removed or one of an organization whose listing failed.                 *)
(***************************************************************************)
RECURSIVE TargetsOf(_, _)
TargetsOf(op, cs) ==
    IF cs = <<>> THEN <<>>
    ELSE IF Head(cs).op = op THEN <<Head(cs).target>> \o TargetsOf(op, Tail(cs))
         ELSE TargetsOf(op, Tail(cs))

FilterOutput == [i \in 1..Len(filtered_repos) |-> RepoName(filtered_repos[i])]

Prefix(s, n) == [i \in 1..n |-> s[i]]

ReachedFetch ==
    /\ command = "search"
    /\ \/ pc \in {"fetch_prs", "render"}
       \/ Ended /\ (CallsOf("pr_list") # {} \/ ResultPrinted)

AfterEveryOrgListing ==
    CallsOf("pr_list") # {} =>
      /\ TargetsOf("repo_list", calls) = orgs
      /\ \A i \in CallsOf("repo_list"), j \in CallsOf("pr_list") : i < j

\* A listed repository passed the filter and came from an answered organization.
OnlySurvivors ==
    \A k \in CallsOf("pr_list") :
      \E i \in 1..Len(filtered_repos) :
        LET repo == filtered_repos[i] IN
          /\ calls[k].target = RepoName(repo)
          /\ Among(repo.name, ItemsOf("repo_list", repo.org))
          /\ PassesFilter(repo.name)

SearchSteps == {"auth", "load", "list_repos", "fetch_prs", "render"}

Terminate ==
    /\ command = "search"
    /\ pc \in SearchSteps
    /\ pc' = "exited"
    /\ exit_code' = 137
    /\ error' = "terminated"
    /\ UNCHANGED <<config_file, platform, libVars, ncmds, command, args, output, calls>>
    /\ UNCHANGED searchVars

TerminableNext == Next \/ Terminate

TerminableSpec == Init /\ [][TerminableNext]_vars

(***************************************************************************)
(* C17.  A search run never writes the configuration file: whatever the    *)
(* overrides and however the run ends (result, fatal error, termination    *)
(* at any step) the stored configuration is what it was.  Only init and    *)
(* set persist anything.                                                   *)
(***************************************************************************)
SearchRunStep == command = "search" \/ command' = "search"

OnlyInitAndSetWrite ==
    config_file' # config_file => pc = "shell" /\ command' \in {"init", "set"}

C17_SearchNeverWrites ==
    [][(SearchRunStep => config_file' = config_file) /\ OnlyInitAndSetWrite]_vars

\* A search run with overrides was terminated while it fetched pull requests.
C17_Witness ==
    /\ command = "search"
    /\ Ended
    /\ error = "terminated"
    /\ IsSome(config_file)
    /\ IsSome(args.orgs) /\ IsSome(args.username) /\ IsSome(args.repo_pattern)
    /\ CallsOf("pr_list") # {}
    /\ checked_repos < Len(filtered_repos)

(***************************************************************************)
(* C18.  The library's operations agree with the Set branch of main: for   *)
(* every organization list, pattern and set argument,                      *)
(* parse_org_modification followed by add_org / remove_org / set_orgs,     *)
(* and set_repo_pattern, give the organizations and the repository         *)
(* pattern that the Set branch gives, and accept or reject the pattern as  *)
(* it does.                                                                *)
(***************************************************************************)
\* The Set branch of main at its start, holding the configuration it loaded.
SetStarts(cfg) == [config |-> cfg, updated |-> FALSE, rejected |-> FALSE, msgs |-> {}]

\* A library call on the organizations leaves the list the Set branch leaves.
OrgsAgree ==
    lib_call'.op \in {"add_org", "remove_org", "set_orgs"} =>
      LET st == SetOrgs(SetStarts(lib_config), Some(lib_call'.str)) IN
        /\ lib_config'.orgs = st.config.orgs
        /\ lib_config'.repo_pattern = st.config.repo_pattern
        /\ lib_call'.op # "set_orgs" => (lib_call'.ret <=> st.updated)

\* set_repo_pattern leaves the pattern the Set branch leaves and rejects what
\* it rejects.
PatternAgrees ==
    lib_call'.op = "set_repo_pattern" =>
      LET st == SetPattern(SetStarts(lib_config), lib_call'.arg) IN
        /\ lib_config'.repo_pattern = st.config.repo_pattern
        /\ lib_config'.orgs = st.config.orgs
        /\ (lib_call'.ret = "Err") <=> st.rejected

PatternGiven == lib_call'.op = "set_repo_pattern" => IsSome(lib_call'.arg)

C18_LibraryAgreesWithSet == [][OrgsAgree /\ PatternAgrees]_vars

\* The agreement on every argument that is given.
AgreementOnGivenArguments == [][OrgsAgree /\ (PatternGiven => PatternAgrees)]_vars

====
